---- MODULE Spec2Model ----
(***************************************************************************)
(* Model of the tictactoe crate: the Board of src/board.rs (cells,         *)
(* win-lines, set_cell, best_move, check_game_over) and the turn loop of   *)
(* src/main.rs.  Cell indices are 0-based as in the code (x + y * dim);    *)
(* a win-line and the list of win-lines are sequences, scanned in order.   *)
(***************************************************************************)
EXTENDS Integers, Sequences, FiniteSets, TLC

VARIABLES dim, cells, win_lines, human_uses, moves, human_move, pc, won, pre, last,
          argv, args, pre_computer

vars == <<dim, cells, win_lines, human_uses, moves, human_move, pc, won, pre, last,
          argv, args, pre_computer>>

\* Largest board dimension on which games and arbitrary boards are explored.
MaxDim == 3

\* Largest dimension of a new board on which best_move is called.
MaxNewDim == 5

\* Largest dimension requested of Board::build.
MaxArgDim == 32

\* Board::build accepts the dimensions MinDim..BuildMaxDim.
MinDim == 2

BuildMaxDim == 30

\* parse_args: the dimension used when -d is absent.
DefaultDim == 4

\* HELP: "Board dimension (default: 3)".
HelpDefaultDim == 3

Dims == MinDim..MaxDim

X == "X"

O == "O"

Blank == "Blank"

Cell == {X, O, Blank}

Marks == {X, O}

GameOver == {"HumanWon", "ComputerWon", "Tie"}

\* Option<GameOver>::None
None == "None"

\* The value of an expression whose evaluation panics.
Panic == "panic"

AlreadyTaken == "Cell already taken"

InvalidDimension == "Invalid board dimension, must be between 2 and 30"

Range(s) == {s[i] : i \in 1..Len(s)}

Indices(d) == 0..(d * d - 1)

opponent(c) == CASE c = X -> O [] c = O -> X [] OTHER -> Panic

\* Mutant of build_win_lines: the anti-diagonal row is dim - x instead of dim - 1 - x.
build_win_lines_AntiOffByOne(d) ==
    [x \in 1..d |-> [y \in 1..d |-> (x - 1) + (y - 1) * d]]
    \o [y \in 1..d |-> [x \in 1..d |-> (x - 1) + (y - 1) * d]]
    \o << [x \in 1..d |-> (x - 1) + (x - 1) * d] >>
    \o << [x \in 1..d |-> (x - 1) + (d - (x - 1)) * d] >>

\* Board::win_lines: dim columns, dim rows, main diagonal, anti-diagonal.
build_win_lines(d) ==
    [x \in 1..d |-> [y \in 1..d |-> (x - 1) + (y - 1) * d]]
    \o [y \in 1..d |-> [x \in 1..d |-> (x - 1) + (y - 1) * d]]
    \o << [x \in 1..d |-> (x - 1) + (x - 1) * d] >>
    \o << [x \in 1..d |-> (x - 1) + (d - 1 - (x - 1)) * d] >>

get_cell(cs, d, x, y) == IF x < d /\ y < d THEN cs[x + y * d] ELSE Panic

\* Mutant of set_cell: no test that the cell is blank.
set_cell_Overwrite(cs, mv, d, x, y, cell) ==
    IF ~(x < d /\ y < d)
    THEN [res |-> Panic, cells |-> cs, moves |-> mv]
    ELSE [res |-> "Ok", cells |-> [cs EXCEPT ![x + y * d] = cell], moves |-> mv + 1]

\* Mutant of set_cell: the move counter is not incremented.
set_cell_NoCount(cs, mv, d, x, y, cell) ==
    IF ~(x < d /\ y < d)
    THEN [res |-> Panic, cells |-> cs, moves |-> mv]
    ELSE IF get_cell(cs, d, x, y) # Blank
    THEN [res |-> AlreadyTaken, cells |-> cs, moves |-> mv]
    ELSE [res |-> "Ok", cells |-> [cs EXCEPT ![x + y * d] = cell], moves |-> mv]

\* Mutant of set_cell: the cell is written at the transposed index y + x * dim.
set_cell_Transposed(cs, mv, d, x, y, cell) ==
    IF ~(x < d /\ y < d)
    THEN [res |-> Panic, cells |-> cs, moves |-> mv]
    ELSE IF get_cell(cs, d, x, y) # Blank
    THEN [res |-> AlreadyTaken, cells |-> cs, moves |-> mv]
    ELSE [res |-> "Ok", cells |-> [cs EXCEPT ![y + x * d] = cell], moves |-> mv + 1]

\* Board::set_cell on (cells, moves): the result and the new cells and counter.
set_cell(cs, mv, d, x, y, cell) ==
    IF ~(x < d /\ y < d)
    THEN [res |-> Panic, cells |-> cs, moves |-> mv]
    ELSE IF get_cell(cs, d, x, y) # Blank
    THEN [res |-> AlreadyTaken, cells |-> cs, moves |-> mv]
    ELSE [res |-> "Ok", cells |-> [cs EXCEPT ![x + y * d] = cell], moves |-> mv + 1]

\* The Board fields while no board exists.
NoBoard == [res |-> "", dim |-> 0, cells |-> <<>>, win_lines |-> <<>>,
            human_uses |-> Blank, moves |-> 0]

\* Mutant of build: the range test excludes its upper end.
build_ExclusiveRange(d, mark) ==
    IF mark = Blank
    THEN [NoBoard EXCEPT !.res = Panic]
    ELSE IF d \notin MinDim..(BuildMaxDim - 1)
    THEN [NoBoard EXCEPT !.res = InvalidDimension]
    ELSE [res |-> "Ok", dim |-> d, cells |-> [i \in Indices(d) |-> Blank],
          win_lines |-> build_win_lines(d), human_uses |-> mark, moves |-> 0]

\* Board::build(dim, human_uses): the assertion, the range test, the new board.
build(d, mark) ==
    IF mark = Blank
    THEN [NoBoard EXCEPT !.res = Panic]
    ELSE IF d \notin MinDim..BuildMaxDim
    THEN [NoBoard EXCEPT !.res = InvalidDimension]
    ELSE [res |-> "Ok", dim |-> d, cells |-> [i \in Indices(d) |-> Blank],
          win_lines |-> build_win_lines(d), human_uses |-> mark, moves |-> 0]

\* Coordinates of a flat index, as best_move returns them: (idx % dim, idx / dim).
Coord(idx, d) == [x |-> idx % d, y |-> idx \div d]

\* Mutant of InitWins: every cell starts with score 1, occupied or not.
InitWins_AllOnes(cs) == [i \in DOMAIN cs |-> 1]

\* best_move: the initial score vector, 1 for a blank cell and 0 otherwise.
InitWins(cs) == [i \in DOMAIN cs |-> IF cs[i] = Blank THEN 1 ELSE 0]

\* Mutant of LineWeight: the weight without the + 1.
LineWeight_NoPlusOne(d, n) == d - n

\* best_move: the weight a surviving line adds to each of its n blank cells.
LineWeight(d, n) == d + 1 - n

\* best_move, first loop, inner scan of one line from position j: skip is set
\* when an opponent cell is met (continue 'outer), blanks collects blank indices.
RECURSIVE ScanWin(_, _, _, _, _)
ScanWin(cs, line, opp, j, blanks) ==
    IF j > Len(line)
    THEN [skip |-> FALSE, blanks |-> blanks]
    ELSE LET c == cs[line[j]]
         IN IF c = opp
            THEN [skip |-> TRUE, blanks |-> blanks]
            ELSE IF c = Blank
            THEN ScanWin(cs, line, opp, j + 1, Append(blanks, line[j]))
            ELSE ScanWin(cs, line, opp, j + 1, blanks)

\* best_move, first loop over the win-lines from line i on: returns at the first
\* line with exactly one blank, otherwise adds the line's weight to its blanks.
RECURSIVE WinPass(_, _, _, _, _, _)
WinPass(cs, d, wl, opp, i, wins) ==
    IF i > Len(wl)
    THEN [found |-> FALSE, idx |-> 0, wins |-> wins]
    ELSE LET s == ScanWin(cs, wl[i], opp, 1, <<>>)
         IN IF s.skip
            THEN WinPass(cs, d, wl, opp, i + 1, wins)
            ELSE IF Len(s.blanks) = 1
            THEN [found |-> TRUE, idx |-> s.blanks[1], wins |-> wins]
            ELSE WinPass(cs, d, wl, opp, i + 1,
                         [k \in DOMAIN wins |->
                             IF k \in Range(s.blanks)
                             THEN wins[k] + LineWeight(d, Len(s.blanks))
                             ELSE wins[k]])

\* best_move, second loop, inner scan of one line from position j: skip is set
\* on a cell of the mover or on a second blank; blank is the blank index seen.
RECURSIVE ScanLose(_, _, _, _, _, _)
ScanLose(cs, line, cell, j, blank, count) ==
    IF j > Len(line)
    THEN [skip |-> FALSE, blank |-> blank, count |-> count]
    ELSE LET c == cs[line[j]]
         IN IF c = cell
            THEN [skip |-> TRUE, blank |-> blank, count |-> count]
            ELSE IF c = Blank
            THEN IF count > 0
                 THEN [skip |-> TRUE, blank |-> blank, count |-> count]
                 ELSE ScanLose(cs, line, cell, j + 1, line[j], count + 1)
            ELSE ScanLose(cs, line, cell, j + 1, blank, count)

\* best_move, second loop over the win-lines from line i on.
RECURSIVE LosePass(_, _, _, _)
LosePass(cs, wl, cell, i) ==
    IF i > Len(wl)
    THEN [found |-> FALSE, idx |-> 0]
    ELSE LET s == ScanLose(cs, wl[i], cell, 1, 0, 0)
         IN IF ~s.skip /\ s.count = 1
            THEN [found |-> TRUE, idx |-> s.blank]
            ELSE LosePass(cs, wl, cell, i + 1)

\* Iterator::max_by_key over wins.iter().enumerate(): a later element replaces
\* the running maximum when its key is not smaller.
RECURSIVE MaxFold(_, _, _)
MaxFold(wins, i, best) ==
    IF i \notin DOMAIN wins
    THEN best
    ELSE MaxFold(wins, i + 1, IF wins[i] >= wins[best] THEN i ELSE best)

\* Mutant of max_by_key: a later element replaces the running maximum only when
\* its key is strictly larger, so the first maximum is kept.
RECURSIVE MaxFoldFirst(_, _, _)
MaxFoldFirst(wins, i, best) ==
    IF i \notin DOMAIN wins
    THEN best
    ELSE MaxFoldFirst(wins, i + 1, IF wins[i] > wins[best] THEN i ELSE best)

max_by_key_First(wins) == MaxFoldFirst(wins, 1, 0)

max_by_key(wins) == MaxFold(wins, 1, 0)

\* Mutant of best_move_idx: the block check runs before the win check.
best_move_idx_BlockFirst(cs, d, wl, cell) ==
    LET w == WinPass(cs, d, wl, opponent(cell), 1, InitWins(cs))
        l == LosePass(cs, wl, cell, 1)
    IN IF l.found THEN l.idx
       ELSE IF w.found THEN w.idx
       ELSE max_by_key(w.wins)

\* Mutant of best_move_idx: the block check scans for the opponent's mark
\* instead of the mover's.
best_move_idx_WrongMark(cs, d, wl, cell) ==
    LET w == WinPass(cs, d, wl, opponent(cell), 1, InitWins(cs))
        l == LosePass(cs, wl, opponent(cell), 1)
    IN IF w.found THEN w.idx
       ELSE IF l.found THEN l.idx
       ELSE max_by_key(w.wins)

\* Mutant of best_move_idx: the second pass over the win-lines is left out.
best_move_idx_NoBlock(cs, d, wl, cell) ==
    LET w == WinPass(cs, d, wl, opponent(cell), 1, InitWins(cs))
    IN IF w.found THEN w.idx ELSE max_by_key(w.wins)

\* Board::best_move(cell): the flat index chosen.
best_move_idx(cs, d, wl, cell) ==
    LET w == WinPass(cs, d, wl, opponent(cell), 1, InitWins(cs))
        l == LosePass(cs, wl, cell, 1)
    IN IF w.found THEN w.idx
       ELSE IF l.found THEN l.idx
       ELSE max_by_key(w.wins)

\* Board::best_move(cell) for cell = X or O: the coordinates returned.
best_move(cs, d, wl, cell) == Coord(best_move_idx(cs, d, wl, cell), d)

\* Board::won
game_won(hu, c) == IF c = hu THEN "HumanWon" ELSE "ComputerWon"

\* check_game_over: the loop over the filtered win-lines from line i on; TRUE
\* when some line has every cell equal to cell.
RECURSIVE LineComplete(_, _, _, _)
LineComplete(cs, lines, cell, i) ==
    IF i > Len(lines)
    THEN FALSE
    ELSE IF \A j \in 1..Len(lines[i]) : cs[lines[i][j]] = cell
    THEN TRUE
    ELSE LineComplete(cs, lines, cell, i + 1)

\* Mutant of BoardFull: the counter is compared with > instead of ==.
BoardFull_Greater(mv, d) == mv > d * d

\* check_game_over: the move-counter test that reports a tie.
BoardFull(mv, d) == mv = d * d

\* Mutant of check_game_over: the tie test comes before the scan of the lines.
check_game_over_TieFirst(cs, mv, d, wl, hu, x, y, cell) ==
    LET idx == x + y * d
        lines == SelectSeq(wl, LAMBDA v : idx \in Range(v))
    IN IF BoardFull(mv, d)
       THEN "Tie"
       ELSE IF LineComplete(cs, lines, cell, 1) THEN game_won(hu, cell) ELSE None

\* Mutant of check_game_over: the index of the last move is y + x * dim.
check_game_over_TransposedIdx(cs, mv, d, wl, hu, x, y, cell) ==
    LET idx == y + x * d
        lines == SelectSeq(wl, LAMBDA v : idx \in Range(v))
    IN IF LineComplete(cs, lines, cell, 1)
       THEN game_won(hu, cell)
       ELSE IF BoardFull(mv, d) THEN "Tie" ELSE None

\* Mutant of check_game_over: a full board without a filled line is no outcome.
check_game_over_NoTie(cs, mv, d, wl, hu, x, y, cell) ==
    LET idx == x + y * d
        lines == SelectSeq(wl, LAMBDA v : idx \in Range(v))
    IN IF LineComplete(cs, lines, cell, 1) THEN game_won(hu, cell) ELSE None

\* Board::check_game_over(x, y, cell)
check_game_over(cs, mv, d, wl, hu, x, y, cell) ==
    LET idx == x + y * d
        lines == SelectSeq(wl, LAMBDA v : idx \in Range(v))
    IN IF LineComplete(cs, lines, cell, 1)
       THEN game_won(hu, cell)
       ELSE IF BoardFull(mv, d) THEN "Tie" ELSE None

NoCall == [op |-> "none", x |-> 0, y |-> 0, cell |-> Blank, res |-> "", over |-> None]

\* struct AppArgs
AppArgs(d, c, o) == [dimension |-> d, computer_begins |-> c, player_uses_o |-> o]

\* The command line: -h given, the value of -d if given, -c given, -o given,
\* and whether arguments remain that parse_args does not know.
Argv(h, d, c, o, rest) == [h |-> h, d |-> d, c |-> c, o |-> o, rest |-> rest]

\* Mutant of Init: the human has the first turn whatever -c says.
Init_HumanAlwaysFirst ==
    /\ dim \in Dims
    /\ cells = [i \in Indices(dim) |-> Blank]
    /\ win_lines = build_win_lines(dim)
    /\ human_uses \in Marks
    /\ moves = 0
    /\ human_move \in BOOLEAN
    /\ pc = "user_move"
    /\ won = None
    /\ pre = [cells |-> cells, moves |-> 0]
    /\ last = NoCall
    /\ argv = Argv(FALSE, <<dim>>, ~human_move, human_uses = O, FALSE)
    /\ args = AppArgs(dim, ~human_move, human_uses = O)
    /\ pre_computer = cells

\* main after Board::build: an empty board, the human's mark, who moves first.
Init ==
    /\ dim \in Dims
    /\ cells = [i \in Indices(dim) |-> Blank]
    /\ win_lines = build_win_lines(dim)
    /\ human_uses \in Marks
    /\ moves = 0
    /\ human_move \in BOOLEAN
    /\ pc = IF human_move THEN "user_move" ELSE "computer_move"
    /\ won = None
    /\ pre = [cells |-> cells, moves |-> 0]
    /\ last = NoCall
    /\ argv = Argv(FALSE, <<dim>>, ~human_move, human_uses = O, FALSE)
    /\ args = AppArgs(dim, ~human_move, human_uses = O)
    /\ pre_computer = cells

\* One pass of the loop in Board::user_move with accept_input returning (x, y).
UserMove(x, y) ==
    /\ pc = "user_move"
    /\ LET r == set_cell(cells, moves, dim, x, y, human_uses)
           over == check_game_over(r.cells, r.moves, dim, win_lines, human_uses,
                                   x, y, human_uses)
       IN /\ pre' = [cells |-> cells, moves |-> moves]
          /\ cells' = r.cells
          /\ moves' = r.moves
          /\ IF r.res = "Ok"
             THEN /\ last' = [op |-> "user_move", x |-> x, y |-> y,
                              cell |-> human_uses, res |-> r.res, over |-> over]
                  /\ won' = over
                  /\ pc' = IF over # None THEN "done" ELSE "computer_move"
             ELSE /\ last' = [op |-> "user_move", x |-> x, y |-> y,
                              cell |-> human_uses, res |-> r.res, over |-> None]
                  /\ won' = won
                  /\ pc' = IF r.res = Panic THEN Panic ELSE pc
    /\ UNCHANGED <<dim, win_lines, human_uses, human_move, argv, args, pre_computer>>

\* Mutant of ComputerMove: the loop does not break on the outcome.
ComputerMove_NoBreak ==
    /\ pc = "computer_move"
    /\ human_move' = TRUE
    /\ LET comp == opponent(human_uses)
           bm == best_move(cells, dim, win_lines, comp)
           r == set_cell(cells, moves, dim, bm.x, bm.y, comp)
           over == check_game_over(r.cells, r.moves, dim, win_lines, human_uses,
                                   bm.x, bm.y, comp)
       IN /\ pre' = [cells |-> cells, moves |-> moves]
          /\ cells' = r.cells
          /\ moves' = r.moves
          /\ last' = [op |-> "computer_move", x |-> bm.x, y |-> bm.y,
                      cell |-> comp, res |-> r.res, over |-> over]
          /\ won' = IF r.res = "Ok" THEN over ELSE won
          /\ pc' = IF r.res = "Ok" THEN "user_move" ELSE Panic
    /\ pre_computer' = cells
    /\ UNCHANGED <<dim, win_lines, human_uses, argv, args>>

\* main: human_move = true, then Board::computer_move.
ComputerMove ==
    /\ pc = "computer_move"
    /\ human_move' = TRUE
    /\ LET comp == opponent(human_uses)
           bm == IF comp = Panic
                 THEN Coord(0, dim)
                 ELSE best_move(cells, dim, win_lines, comp)
           r == IF comp = Panic
                THEN [res |-> Panic, cells |-> cells, moves |-> moves]
                ELSE set_cell(cells, moves, dim, bm.x, bm.y, comp)
           over == check_game_over(r.cells, r.moves, dim, win_lines, human_uses,
                                   bm.x, bm.y, comp)
       IN /\ pre' = [cells |-> cells, moves |-> moves]
          /\ cells' = r.cells
          /\ moves' = r.moves
          /\ IF r.res = "Ok"
             THEN /\ last' = [op |-> "computer_move", x |-> bm.x, y |-> bm.y,
                              cell |-> comp, res |-> r.res, over |-> over]
                  /\ won' = over
                  /\ pc' = IF over # None THEN "done" ELSE "user_move"
             ELSE /\ last' = [op |-> "computer_move", x |-> bm.x, y |-> bm.y,
                              cell |-> comp, res |-> r.res, over |-> None]
                  /\ won' = won
                  /\ pc' = Panic
    /\ pre_computer' = cells
    /\ UNCHANGED <<dim, win_lines, human_uses, argv, args>>

Next ==
    \/ \E x \in 0..(dim - 1), y \in 0..(dim - 1) : UserMove(x, y)
    \/ ComputerMove

Spec == Init /\ [][Next]_vars

\* Number of non-blank cells, as Board::from_string counts them into moves.
CountMarks(cs) == Cardinality({i \in DOMAIN cs : cs[i] # Blank})

\* A board as Board::from_string builds it from any text of dim * dim cells,
\* about to receive the call named by p.
InitBoard(p) ==
    /\ dim \in Dims
    /\ cells \in [Indices(dim) -> Cell]
    /\ win_lines = build_win_lines(dim)
    /\ human_uses \in Marks
    /\ moves = CountMarks(cells)
    /\ human_move = TRUE
    /\ pc \in p
    /\ won = None
    /\ pre = [cells |-> cells, moves |-> moves]
    /\ last = NoCall
    /\ argv = Argv(FALSE, <<dim>>, FALSE, human_uses = O, FALSE)
    /\ args = AppArgs(dim, FALSE, human_uses = O)
    /\ pre_computer = cells

\* A call of Board::best_move(mark) on the board.
BestMoveCall(mark) ==
    /\ pc = "best_move"
    /\ LET bm == best_move(cells, dim, win_lines, mark)
       IN last' = [op |-> "best_move", x |-> bm.x, y |-> bm.y, cell |-> mark,
                   res |-> "", over |-> None]
    /\ pc' = "returned"
    /\ UNCHANGED <<dim, cells, win_lines, human_uses, moves, human_move, won, pre,
                   argv, args, pre_computer>>

\* A call of Board::check_game_over(x, y, mark) on the board.
CheckGameOverCall(x, y, mark) ==
    /\ pc = "check_game_over"
    /\ last' = [op |-> "check_game_over", x |-> x, y |-> y, cell |-> mark,
                res |-> "",
                over |-> check_game_over(cells, moves, dim, win_lines, human_uses,
                                         x, y, mark)]
    /\ pc' = "returned"
    /\ UNCHANGED <<dim, cells, win_lines, human_uses, moves, human_move, won, pre,
                   argv, args, pre_computer>>

InitBestMove == InitBoard({"best_move", "computer_move"})

NextBestMove ==
    \/ \E mark \in Marks : BestMoveCall(mark)
    \/ ComputerMove

\* best_move and computer_move called on every board of every dimension in Dims.
SpecBestMove == InitBestMove /\ [][NextBestMove]_vars

InitCheckGameOver == InitBoard({"check_game_over"})

NextCheckGameOver ==
    \E x \in 0..(dim - 1), y \in 0..(dim - 1), mark \in Marks :
        CheckGameOverCall(x, y, mark)

\* check_game_over called on every board of every dimension in Dims.
SpecCheckGameOver == InitCheckGameOver /\ [][NextCheckGameOver]_vars

(***************************************************************************)
(* Properties.  A call's arguments and result are in last; pre is the      *)
(* board the call was made on.                                             *)
(***************************************************************************)

LastIdx == last.x + last.y * dim

HasBlank(cs) == \E i \in DOMAIN cs : cs[i] = Blank

BlanksOn(cs, line) == {i \in Range(line) : cs[i] = Blank}

\* The line holds no mark of the other player and has exactly one blank cell.
WinInOne(cs, mark, line) ==
    /\ \A i \in Range(line) : cs[i] # opponent(mark)
    /\ Cardinality(BlanksOn(cs, line)) = 1

\* The line holds no cell of mark and has exactly one blank cell, so the other
\* player's mark fills its remaining cells.
BlockInOne(cs, mark, line) ==
    /\ \A i \in Range(line) : cs[i] # mark
    /\ Cardinality(BlanksOn(cs, line)) = 1

CanWin(cs, mark) == \E l \in 1..Len(win_lines) : WinInOne(cs, mark, win_lines[l])

CanBlock(cs, mark) == \E l \in 1..Len(win_lines) : BlockInOne(cs, mark, win_lines[l])

\* The heuristic fallback decides: no immediate win and no immediate block.
Fallback(cs, mark) == ~CanWin(cs, mark) /\ ~CanBlock(cs, mark)

\* Sum over the win-lines numbered in S of dim + 1 - the line's blank cells.
RECURSIVE SumOver(_, _)
SumOver(S, cs) ==
    IF S = {}
    THEN 0
    ELSE LET l == CHOOSE k \in S : TRUE
         IN dim + 1 - Cardinality(BlanksOn(cs, win_lines[l])) + SumOver(S \ {l}, cs)

\* The score of cell i for mark: 0 when occupied, otherwise 1 plus, for every
\* win-line through i without a mark of the other player, dim + 1 - its blanks.
Score(cs, mark, i) ==
    IF cs[i] # Blank
    THEN 0
    ELSE 1 + SumOver({l \in 1..Len(win_lines) :
                         /\ i \in Range(win_lines[l])
                         /\ \A k \in Range(win_lines[l]) : cs[k] # opponent(mark)},
                     cs)

BestCells(cs, mark) ==
    {i \in DOMAIN cs : \A k \in DOMAIN cs : Score(cs, mark, k) <= Score(cs, mark, i)}

\* C1: on every board with at least one blank cell, best_move(mark) for either
\* mark returns coordinates inside the board whose cell is blank.
C1_BestMoveReturnsBlank ==
    (last.op = "best_move" /\ HasBlank(cells)) =>
        /\ last.x \in 0..(dim - 1)
        /\ last.y \in 0..(dim - 1)
        /\ cells[LastIdx] = Blank

\* best_move has answered on a 3 x 3 board no game can reach (three X, no O)
\* after the fallback scoring.
C1_Witness ==
    /\ last.op = "best_move"
    /\ dim = 3
    /\ Cardinality({i \in DOMAIN cells : cells[i] = X}) = 3
    /\ Cardinality({i \in DOMAIN cells : cells[i] = O}) = 0
    /\ Fallback(cells, last.cell)
    /\ cells[LastIdx] = Blank

\* C2: when some win-line has no opponent mark and exactly one blank cell,
\* best_move(mark) returns the blank cell of such a line, also when the opponent
\* has a line one move from completion; computer_move on such a board places
\* the mark and returns ComputerWon.
C2_ImmediateWinFirst ==
    /\ (last.op = "best_move" /\ CanWin(cells, last.cell)) =>
           \E l \in 1..Len(win_lines) :
               /\ WinInOne(cells, last.cell, win_lines[l])
               /\ BlanksOn(cells, win_lines[l]) = {LastIdx}
    /\ (last.op = "computer_move" /\ CanWin(pre.cells, opponent(human_uses))) =>
           /\ last.res = "Ok"
           /\ last.over = "ComputerWon"
           /\ won = "ComputerWon"
           /\ pc = "done"

\* best_move took a win although the opponent threatened on another cell.
C2_Witness ==
    /\ last.op = "best_move"
    /\ CanWin(cells, last.cell)
    /\ \E l \in 1..Len(win_lines) :
           /\ BlockInOne(cells, last.cell, win_lines[l])
           /\ LastIdx \notin BlanksOn(cells, win_lines[l])
    /\ \E l \in 1..Len(win_lines) :
           /\ WinInOne(cells, last.cell, win_lines[l])
           /\ BlanksOn(cells, win_lines[l]) = {LastIdx}

\* C3: when no win-line is one move from completion for mark but some win-line
\* has no cell of mark, one blank cell and the opponent's mark in all its other
\* cells, best_move(mark) returns the blank cell of such a line.
C3_ImmediateBlock ==
    (last.op = "best_move" /\ ~CanWin(cells, last.cell) /\ CanBlock(cells, last.cell)) =>
        \E l \in 1..Len(win_lines) :
            /\ BlockInOne(cells, last.cell, win_lines[l])
            /\ BlanksOn(cells, win_lines[l]) = {LastIdx}

\* best_move blocked on a 3 x 3 board where the mover had no immediate win.
C3_Witness ==
    /\ last.op = "best_move"
    /\ dim = 3
    /\ ~CanWin(cells, last.cell)
    /\ \E l \in 1..Len(win_lines) :
           /\ BlockInOne(cells, last.cell, win_lines[l])
           /\ BlanksOn(cells, win_lines[l]) = {LastIdx}

\* C4 as stated: in the heuristic fallback on a board with a blank cell,
\* best_move returns the cell of maximal score with the lowest flat index.
C4_FirstOccurrence ==
    (last.op = "best_move" /\ Fallback(cells, last.cell) /\ HasBlank(cells)) =>
        /\ LastIdx \in BestCells(cells, last.cell)
        /\ \A i \in BestCells(cells, last.cell) : LastIdx <= i

\* C4 amended: in the heuristic fallback on a board with a blank cell,
\* best_move returns the cell of maximal score with the highest flat index
\* (max_by_key keeps the last maximum).
C4_LastOccurrence ==
    (last.op = "best_move" /\ Fallback(cells, last.cell) /\ HasBlank(cells)) =>
        /\ LastIdx \in BestCells(cells, last.cell)
        /\ \A i \in BestCells(cells, last.cell) : i <= LastIdx

\* The fallback decided a 3 x 3 board whose only mark is the opponent's at the
\* centre: the four corners share the maximal score and the last one is chosen.
C4_Witness ==
    /\ last.op = "best_move"
    /\ dim = 3
    /\ Fallback(cells, last.cell)
    /\ \A i \in DOMAIN cells : (cells[i] # Blank) <=> (i = 4)
    /\ cells[4] = opponent(last.cell)
    /\ BestCells(cells, last.cell) = {0, 2, 6, 8}
    /\ LastIdx = 8

WinThrough(cs, x, y, mark) ==
    LET K == 0..(dim - 1)
    IN \/ \A k \in K : cs[k + y * dim] = mark
       \/ \A k \in K : cs[x + k * dim] = mark
       \/ x = y /\ \A k \in K : cs[k + k * dim] = mark
       \/ x + y = dim - 1 /\ \A k \in K : cs[k + (dim - 1 - k) * dim] = mark

\* C6: check_game_over(x, y, mark) returns a win when a win-line through
\* x + y * dim is filled with mark, HumanWon iff mark is the human's mark and
\* ComputerWon otherwise, also on a full board; without such a line it returns
\* Tie iff the move counter equals dim * dim and no outcome otherwise.
C6_CheckGameOverExact ==
    (last.op = "check_game_over") =>
        IF WinThrough(cells, last.x, last.y, last.cell)
        THEN /\ last.over \in {"HumanWon", "ComputerWon"}
             /\ (last.over = "HumanWon") <=> (last.cell = human_uses)
        ELSE /\ (last.over = "Tie") <=> (moves = dim * dim)
             /\ (last.over = None) <=> (moves # dim * dim)

\* check_game_over reported the computer's win on a full 3 x 3 board.
C6_Witness ==
    /\ last.op = "check_game_over"
    /\ dim = 3
    /\ moves = dim * dim
    /\ WinThrough(cells, last.x, last.y, last.cell)
    /\ last.cell # human_uses
    /\ last.over = "ComputerWon"

\* C7: in every game the automated player never selects an occupied or
\* out-of-range cell: computer_move is never invoked on a full board, its
\* set_cell call succeeds, and nothing panics.
C7_ComputerMoveSafe ==
    /\ pc # Panic
    /\ (pc = "computer_move") => HasBlank(cells)
    /\ (last.op = "computer_move") =>
           /\ last.x \in 0..(dim - 1)
           /\ last.y \in 0..(dim - 1)
           /\ pre.cells[LastIdx] = Blank
           /\ last.res = "Ok"

\* The automated player filled the last blank cell of a 3 x 3 board.
C7_Witness ==
    /\ last.op = "computer_move"
    /\ dim = 3
    /\ last.res = "Ok"
    /\ moves = dim * dim
    /\ pre.cells[LastIdx] = Blank

\* C8: set_cell on a blank cell sets exactly that cell and adds one to the move
\* counter; on an occupied cell it fails with "Cell already taken" and changes
\* nothing, and in user_move the turn stays with the human.
C8_SetCell ==
    (last.op \in {"user_move", "computer_move"}) =>
        IF pre.cells[LastIdx] = Blank
        THEN /\ last.res = "Ok"
             /\ cells = [pre.cells EXCEPT ![LastIdx] = last.cell]
             /\ moves = pre.moves + 1
        ELSE /\ last.res = AlreadyTaken
             /\ cells = pre.cells
             /\ moves = pre.moves
             /\ (last.op = "user_move") => (pc = "user_move" /\ won = None)

\* The human named an occupied cell and is asked again.
C8_Witness ==
    /\ last.op = "user_move"
    /\ last.res = AlreadyTaken
    /\ pre.cells[LastIdx] # Blank
    /\ pc = "user_move"
    /\ moves >= 2

\* C9: in every reachable state of a game the move counter equals the number of
\* non-blank cells, the cell vector has dim * dim entries, and the counter
\* equals dim * dim iff the board is full.
C9_MoveCounter ==
    /\ DOMAIN cells = 0..(dim * dim - 1)
    /\ moves = Cardinality({i \in DOMAIN cells : cells[i] # Blank})
    /\ (moves = dim * dim) <=> (\A i \in DOMAIN cells : cells[i] # Blank)

\* A game filled a 3 x 3 board.
C9_Witness ==
    /\ dim = 3
    /\ moves = 9
    /\ \A i \in DOMAIN cells : cells[i] # Blank

\* C10: a cell that holds a mark keeps that mark in every later state; a cell
\* changes only from blank to a mark.
C10_CellsNeverOverwritten ==
    [][\A i \in DOMAIN cells : cells[i] # Blank => cells'[i] = cells[i]]_vars

\* A move was accepted on a board that already held marks of both players, and
\* those marks are still in place.
C10_Witness ==
    /\ last.op \in {"user_move", "computer_move"}
    /\ last.res = "Ok"
    /\ \E i, k \in DOMAIN cells : pre.cells[i] = X /\ pre.cells[k] = O
    /\ \A i \in DOMAIN cells : pre.cells[i] # Blank => cells[i] = pre.cells[i]

CountOf(cs, mark) == Cardinality({i \in DOMAIN cs : cs[i] = mark})

\* The mark of the player who moves first: the computer's with -c, else the human's.
FirstMark == IF args.computer_begins THEN opponent(human_uses) ELSE human_uses

\* C11: accepted moves alternate between the human and the automated player,
\* starting with the player the -c flag selects; the human places the human mark
\* and the computer the other one, so the two counts differ by at most one and
\* the first mover's count is never the smaller.
C11_StrictAlternation ==
    LET lead == CountOf(cells, FirstMark) - CountOf(cells, opponent(FirstMark))
        human_first == ~args.computer_begins
    IN /\ lead \in {0, 1}
       /\ (pc = "user_move") => (lead = IF human_first THEN 0 ELSE 1)
       /\ (pc = "computer_move") => (lead = IF human_first THEN 1 ELSE 0)
       /\ (last.op = "user_move" /\ last.res = "Ok") =>
              (last.cell = human_uses /\ cells[LastIdx] = human_uses)
       /\ (last.op = "computer_move" /\ last.res = "Ok") =>
              (last.cell = opponent(human_uses) /\ cells[LastIdx] = opponent(human_uses))

\* The computer began and has made its third move on a 3 x 3 board.
C11_Witness ==
    /\ args.computer_begins
    /\ dim = 3
    /\ last.op = "computer_move"
    /\ CountOf(cells, opponent(human_uses)) = 3
    /\ CountOf(cells, human_uses) = 2

\* C12: once user_move or computer_move has returned an outcome, no further
\* move is applied: the cells, the move counter, the outcome and the driver's
\* position stay as they are.
C12_GameOverTerminal ==
    [][(won # None) => (pc = "done" /\ UNCHANGED <<cells, moves, won, pc>>)]_vars

\* A game has ended with a win while blank cells remain on a 3 x 3 board.
C12_Witness ==
    /\ pc = "done"
    /\ dim = 3
    /\ won \in {"HumanWon", "ComputerWon"}
    /\ HasBlank(cells)

(***************************************************************************)
(* The program from its command line: parse_args, Board::build, the turn   *)
(* loop; and Board::build called directly with any dimension and cell,     *)
(* followed by best_move on the new board.                                 *)
(***************************************************************************)

\* Before parse_args and Board::build have run: a command line, or a direct
\* call of Board::build about to be made.
InitMain ==
    /\ dim = NoBoard.dim
    /\ cells = NoBoard.cells
    /\ win_lines = NoBoard.win_lines
    /\ human_uses = NoBoard.human_uses
    /\ moves = NoBoard.moves
    /\ human_move = TRUE
    /\ won = None
    /\ pre = [cells |-> cells, moves |-> moves]
    /\ last = NoCall
    /\ args = AppArgs(0, FALSE, FALSE)
    /\ pre_computer = cells
    /\ \/ /\ pc = "parse_args"
          /\ \E h \in BOOLEAN, c \in BOOLEAN, o \in BOOLEAN, rest \in BOOLEAN,
                d \in {<<>>} \cup {<<n>> : n \in 0..MaxArgDim} :
                 argv = Argv(h, d, c, o, rest)
       \/ /\ pc = "lib_build"
          /\ argv = Argv(FALSE, <<>>, FALSE, FALSE, FALSE)

\* parse_args: -h prints the help and exits; otherwise the options are read,
\* and arguments that remain end the program.
ParseArgs ==
    /\ pc = "parse_args"
    /\ IF argv.h
       THEN /\ args' = args
            /\ pc' = "exit"
            /\ last' = [NoCall EXCEPT !.op = "parse_args", !.res = "exit 0"]
       ELSE /\ args' = AppArgs(IF argv.d = <<>> THEN DefaultDim ELSE argv.d[1],
                               argv.c, argv.o)
            /\ pc' = IF argv.rest THEN "exit" ELSE "build"
            /\ last' = [NoCall EXCEPT !.op = "parse_args",
                                      !.res = IF argv.rest THEN "exit 1" ELSE "Ok"]
    /\ UNCHANGED <<dim, cells, win_lines, human_uses, moves, human_move, won, pre,
                   argv, pre_computer>>

\* The board fields after a call of Board::build(d, mark) that continues at p.
BuildBoard(d, mark, p) ==
    LET b == build(d, mark)
    IN /\ dim' = b.dim
       /\ cells' = b.cells
       /\ win_lines' = b.win_lines
       /\ human_uses' = b.human_uses
       /\ moves' = b.moves
       /\ pre' = [cells |-> b.cells, moves |-> b.moves]
       /\ pre_computer' = b.cells
       /\ last' = [op |-> "build", x |-> d, y |-> 0, cell |-> mark, res |-> b.res,
                   over |-> None]
       /\ pc' = IF b.res = "Ok" THEN p ELSE IF b.res = Panic THEN Panic ELSE "exit"

\* main: Board::build with the parsed arguments, then the first turn.
MainBuild ==
    /\ pc = "build"
    /\ BuildBoard(args.dimension, IF args.player_uses_o THEN O ELSE X,
                  IF args.computer_begins THEN "computer_move" ELSE "user_move")
    /\ human_move' = ~args.computer_begins
    /\ UNCHANGED <<won, argv, args>>

\* Board::build(d, mark) called directly.
LibBuild(d, mark) ==
    /\ pc = "lib_build"
    /\ BuildBoard(d, mark, "best_move")
    /\ UNCHANGED <<human_move, won, argv, args>>

NextMain ==
    \/ ParseArgs
    \/ MainBuild
    \/ \E d \in 0..MaxArgDim, mark \in Cell : LibBuild(d, mark)
    \/ \E mark \in Marks : dim <= MaxNewDim /\ BestMoveCall(mark)
    \/ dim <= MaxDim /\ Next

SpecMain == InitMain /\ [][NextMain]_vars

\* A board has been built.
Built == dim # 0

\* The index sets of the dim rows, the dim columns and the two diagonals.
RowSets == {{x + y * dim : x \in 0..(dim - 1)} : y \in 0..(dim - 1)}

ColSets == {{x + y * dim : y \in 0..(dim - 1)} : x \in 0..(dim - 1)}

DiagSets == {{x + x * dim : x \in 0..(dim - 1)},
             {x + (dim - 1 - x) * dim : x \in 0..(dim - 1)}}

WinLinesWellFormed ==
    /\ Len(win_lines) = 2 * dim + 2
    /\ \A l \in 1..Len(win_lines) :
           /\ Len(win_lines[l]) = dim
           /\ \A j \in 1..dim : win_lines[l][j] \in 0..(dim * dim - 1)
           /\ \A j, k \in 1..dim : j # k => win_lines[l][j] # win_lines[l][k]
    /\ {Range(win_lines[l]) : l \in 1..Len(win_lines)} = RowSets \cup ColSets \cup DiagSets
    /\ Cardinality({Range(win_lines[l]) : l \in 1..Len(win_lines)}) = 2 * dim + 2

\* C13: for every dimension in [2,30] the win-lines built at construction are
\* 2 * dim + 2 sequences of dim distinct indices in [0, dim * dim): the rows, the
\* columns and the two diagonals; no step modifies them afterwards.
C13_WinLines ==
    /\ [](Built => (dim \in 2..30 /\ WinLinesWellFormed))
    /\ [][Built => win_lines' = win_lines]_vars

\* A 30 x 30 board has been built with its 62 win-lines.
C13_Witness ==
    /\ Built
    /\ dim = 30
    /\ Len(win_lines) = 62
    /\ win_lines[62][1] = 870

\* C14: build(D, mark) with a non-blank mark succeeds iff 2 <= D <= 30, giving
\* D * D blank cells and move counter 0, and otherwise returns the
\* invalid-dimension error; build with a blank mark never returns a board.
C14_Build ==
    (last.op = "build") =>
        IF last.cell = Blank
        THEN last.res = Panic /\ pc = Panic /\ ~Built
        ELSE IF 2 <= last.x /\ last.x <= 30
        THEN /\ last.res = "Ok"
             /\ dim = last.x
             /\ human_uses = last.cell
             /\ DOMAIN cells = 0..(last.x * last.x - 1)
             /\ \A i \in DOMAIN cells : cells[i] = Blank
             /\ moves = 0
        ELSE /\ last.res = InvalidDimension
             /\ ~Built

\* build succeeded for dimension 30.
C14_Witness ==
    /\ last.op = "build"
    /\ last.x = 30
    /\ last.res = "Ok"
    /\ Cardinality(DOMAIN cells) = 900
    /\ moves = 0

\* C15: on an empty board of odd dimension best_move returns the centre cell
\* for either mark.
C15_CentreOnEmptyBoard ==
    (last.op = "best_move" /\ dim % 2 = 1 /\ \A i \in DOMAIN cells : cells[i] = Blank) =>
        (last.x = (dim - 1) \div 2 /\ last.y = (dim - 1) \div 2)

\* best_move answered (2, 2) on an empty 5 x 5 board.
C15_Witness ==
    /\ last.op = "best_move"
    /\ dim = 5
    /\ \A i \in DOMAIN cells : cells[i] = Blank
    /\ last.x = 2
    /\ last.y = 2

\* C17: without the -d option the game is played on a board of the dimension
\* the help text states as the default.
C17_DefaultDimension ==
    (Built /\ argv.d = <<>> /\ pc \in {"user_move", "computer_move", "done"}) =>
        dim = HelpDefaultDim

(***************************************************************************)
(* Text: a string is a sequence of one-character strings.                  *)
(***************************************************************************)

\* impl Display for Cell
cell_fmt(c) == CASE c = X -> "X" [] c = O -> "O" [] OTHER -> " "

RECURSIVE Repeat(_, _)
Repeat(s, n) == IF n = 0 THEN <<>> ELSE s \o Repeat(s, n - 1)

\* impl Display for Board: the cells of row y from column x on, "| c " each.
RECURSIVE RowText(_, _, _, _)
RowText(cs, d, x, y) ==
    IF x >= d
    THEN <<>>
    ELSE <<"|", " ", cell_fmt(get_cell(cs, d, x, y)), " ">> \o RowText(cs, d, x + 1, y)

\* impl Display for Board: the rows from row y on, each closed by "|" and
\* followed by the separator line.
RECURSIVE RowsText(_, _, _, _)
RowsText(cs, d, sep, y) ==
    IF y >= d
    THEN <<>>
    ELSE RowText(cs, d, 0, y) \o <<"|", "\n">> \o sep \o <<"\n">>
         \o RowsText(cs, d, sep, y + 1)

\* impl Display for Board
board_fmt(cs, d) ==
    LET sep == Repeat(<<"+", "-", "-", "-">>, d) \o <<"+">>
    IN sep \o <<"\n">> \o RowsText(cs, d, sep, 0)

Whitespace == {" ", "\n", "\r", "\t"}

\* str::trim
RECURSIVE TrimStart(_)
TrimStart(s) ==
    IF s # <<>> /\ Head(s) \in Whitespace THEN TrimStart(Tail(s)) ELSE s

RECURSIVE TrimEnd(_)
TrimEnd(s) ==
    IF s # <<>> /\ s[Len(s)] \in Whitespace
    THEN TrimEnd(SubSeq(s, 1, Len(s) - 1))
    ELSE s

trim(s) == TrimEnd(TrimStart(s))

\* Mutant of from_string: characters other than X, O and - are skipped.
from_string_SkipUnknown(s, d, hu) ==
    LET t == SelectSeq(trim(s), LAMBDA c : c \in {"X", "O", "-"})
        cs == [i \in 0..(Len(t) - 1) |->
                  CASE t[i + 1] = "X" -> X [] t[i + 1] = "O" -> O [] OTHER -> Blank]
    IN [res |-> "Ok", cells |-> cs,
        moves |-> Cardinality({i \in DOMAIN cs : cs[i] # Blank})]

\* Board::from_string(s, dim, human_uses): trim, drop '\r', '\n' and ' ', then
\* map '-' to Blank and 'X', 'O' to the marks, counting them into moves; any
\* other character panics.
from_string(s, d, hu) ==
    LET t == SelectSeq(trim(s), LAMBDA c : c \notin {"\r", "\n", " "})
        cs == [i \in 0..(Len(t) - 1) |->
                  CASE t[i + 1] = "X" -> X [] t[i + 1] = "O" -> O [] OTHER -> Blank]
    IN IF \E i \in 1..Len(t) : t[i] \notin {"X", "O", "-"}
       THEN [res |-> Panic, cells |-> <<>>, moves |-> 0]
       ELSE [res |-> "Ok", cells |-> cs,
             moves |-> Cardinality({i \in DOMAIN cs : cs[i] # Blank})]

\* A board literal as the tests write it: a line break, then one line per row,
\* indented, with 'X', 'O' and '-' for the cells of the row.
RECURSIVE LiteralRows(_, _, _)
LiteralRows(cs, d, y) ==
    IF y >= d
    THEN <<>>
    ELSE <<"\n", " ", " ">>
         \o [x \in 1..d |-> CASE cs[(x - 1) + y * d] = X -> "X"
                              [] cs[(x - 1) + y * d] = O -> "O"
                              [] OTHER -> "-"]
         \o LiteralRows(cs, d, y + 1)

BoardLiteral(cs, d) == LiteralRows(cs, d, 0)

\* The board is replaced by from_string applied to the text: a panic leaves it.
Reparse(op, text) ==
    LET b == from_string(text, dim, human_uses)
    IN /\ last' = [NoCall EXCEPT !.op = op, !.res = b.res]
       /\ pre' = [cells |-> cells, moves |-> moves]
       /\ cells' = IF b.res = "Ok" THEN b.cells ELSE cells
       /\ moves' = IF b.res = "Ok" THEN b.moves ELSE moves
       /\ pc' = IF b.res = "Ok" THEN "returned" ELSE Panic
       /\ UNCHANGED <<dim, win_lines, human_uses, human_move, won, argv, args,
                      pre_computer>>

\* Board::from_string(&board.to_string(), dim, human_uses)
RoundTrip ==
    /\ pc = "round_trip"
    /\ Reparse("round_trip", board_fmt(cells, dim))

\* Board::from_string on the board written as a test literal.
FromStringCall ==
    /\ pc = "from_string"
    /\ Reparse("from_string", BoardLiteral(cells, dim))

InitRoundTrip == InitBoard({"round_trip", "from_string"})

NextRoundTrip == RoundTrip \/ FromStringCall

\* Display and from_string applied to every board of every dimension in Dims.
SpecRoundTrip == InitRoundTrip /\ [][NextRoundTrip]_vars

\* C16 as stated: rendering a board with Display and parsing the text with
\* from_string yields a board with the same cells and the same move count.
C16_RoundTrip ==
    (last.op = "round_trip") =>
        (last.res = "Ok" /\ cells = pre.cells /\ moves = pre.moves)

\* C16 amended: from_string panics on the Display rendering of every board;
\* it reproduces the cells and the move count from the board written in its
\* own format, one of 'X', 'O', '-' per cell.
C16_RoundTripOwnFormat ==
    /\ (last.op = "round_trip") =>
           (last.res = Panic /\ pc = Panic /\ cells = pre.cells)
    /\ (last.op = "from_string") =>
           (last.res = "Ok" /\ cells = pre.cells /\ moves = pre.moves)

\* The rendering of a 3 x 3 board holding every cell value has been parsed.
C16_Witness ==
    /\ dim = 3
    /\ {pre.cells[i] : i \in DOMAIN pre.cells} = Cell
    /\ last.op = "round_trip"
    /\ last.res = Panic
    /\ cells = pre.cells

\* Some row, column or diagonal of the board is filled with mark.
AnyLineOf(cs, mark) ==
    \E line \in RowSets \cup ColSets \cup DiagSets : \A i \in line : cs[i] = mark

\* The outcome found by scanning all 2 * dim + 2 win-lines for either mark.
FullScanOutcome(cs) ==
    IF AnyLineOf(cs, human_uses) THEN "HumanWon"
    ELSE IF AnyLineOf(cs, opponent(human_uses)) THEN "ComputerWon"
    ELSE IF \A i \in DOMAIN cs : cs[i] # Blank THEN "Tie"
    ELSE None

\* C18: in every game the outcome check_game_over computes from the win-lines
\* through the cell just played equals the outcome of a scan of all win-lines
\* for either mark: while the game is in progress no win-line is filled with
\* one mark, and Tie is reported only on a full board without such a line.
C18_LastMoveCheckIsComplete ==
    /\ won = FullScanOutcome(cells)
    /\ (last.op \in {"user_move", "computer_move"} /\ last.res = "Ok") =>
           last.over = FullScanOutcome(cells)
    /\ ~(AnyLineOf(cells, X) /\ AnyLineOf(cells, O))

\* A game on a 3 x 3 board ended in a tie: the board is full and no line is
\* filled with one mark.
C18_Witness ==
    /\ dim = 3
    /\ won = "Tie"
    /\ last.over = "Tie"
    /\ ~AnyLineOf(cells, X)
    /\ ~AnyLineOf(cells, O)

\* A pass of user_move in which the human names a blank cell.
AcceptedUserMove ==
    \E x \in 0..(dim - 1), y \in 0..(dim - 1) : UserMove(x, y) /\ moves' = moves + 1

\* The end of the automated player's turn: computer_move is one call that
\* returns, so the turn it opens is followed by the human's turn, by the end
\* of the game or by a panic.
ComputerTurnEnds ==
    /\ pc = "computer_move"
    /\ pc' \in {"user_move", "done", Panic}

\* The game with its scheduling: the automated player's turn ends with its
\* move, and the human eventually names a blank cell on each of their turns.
SpecFair == Spec /\ WF_pc(ComputerTurnEnds) /\ WF_vars(AcceptedUserMove)

\* C19: every game ends: the driver reaches an outcome after at most
\* dim * dim accepted moves.
C19_GameTerminates ==
    <>(pc = "done" /\ won \in GameOver /\ moves <= dim * dim)

\* A 3 x 3 game ended only with the ninth accepted move.
C19_Witness ==
    /\ dim = 3
    /\ pc = "done"
    /\ won \in GameOver
    /\ moves = 9

\* The blank cells that alone complete a win-line for mark: the other
\* dim - 1 cells of some win-line through the cell hold mark.
ThreatCells(cs, mark) ==
    {i \in DOMAIN cs :
        /\ cs[i] = Blank
        /\ \E l \in 1..Len(win_lines) :
               /\ i \in Range(win_lines[l])
               /\ \A j \in Range(win_lines[l]) \ {i} : cs[j] = mark}

\* C20: the automated player loses only to a double threat: when a game ends
\* with HumanWon the computer has moved at least once, and before its last
\* move at least two blank cells each completed a win-line for the human.
C20_LosesOnlyToDoubleThreat ==
    (won = "HumanWon") =>
        /\ CountOf(cells, opponent(human_uses)) >= 1
        /\ CountOf(pre_computer, opponent(human_uses)) + 1
               = CountOf(cells, opponent(human_uses))
        /\ Cardinality(ThreatCells(pre_computer, human_uses)) >= 2

\* The human won a 3 x 3 game in which the automated player had blocked one
\* of exactly two threats with its last move.
C20_Witness ==
    /\ dim = 3
    /\ won = "HumanWon"
    /\ pc = "done"
    /\ Cardinality(ThreatCells(pre_computer, human_uses)) = 2
    /\ CountOf(cells, opponent(human_uses)) >= 2

====
